---- MODULE Spec2Model ----
(***************************************************************************)
(* The HTML-to-Markdown translator of wordpress-export-to-markdown         *)
(* (src/src/translator.js): the turndown rules that initTurndownService    *)
(* registers, the conversion of a node tree under those rules, and the     *)
(* string rewrites of getPostContent.                                      *)
(*                                                                         *)
(* Strings are TLA+ strings, read as sequences of one-character strings.   *)
(***************************************************************************)
EXTENDS Integers, Sequences, FiniteSets, TLC

VARIABLES
    pc,       \* position of the running operation
    raw,      \* postData.encoded[0], as handed to getPostContent
    postContent,  \* the local variable content of getPostContent
    previous, \* content as it was before the last rewrite of getPostContent
    config,   \* config.saveScrapedImages
    doc,      \* the parsed root node handed to the tree converter
    stack,    \* the converter's call stack (one frame per node being converted)
    last,     \* the most recent rule application: rule, node, content, result
    result,   \* what the outermost turndown() call returned
    taken     \* how many steps the conversion has taken

vars == <<pc, raw, postContent, previous, config, doc, stack, last, result, taken>>

----------------------------------------------------------------------------
(* JavaScript string primitives                                            *)

Min(S) == CHOOSE m \in S : \A k \in S : m =< k

Max(S) == CHOOSE m \in S : \A k \in S : m >= k

\* s.charAt(i - 1): the empty string outside s
At(s, i) == IF i \in 1..Len(s) THEN SubSeq(s, i, i) ELSE ""

From(s, i) == SubSeq(s, i, Len(s))

StartsAt(s, i, lit) ==
    /\ i >= 1
    /\ i + Len(lit) - 1 =< Len(s)
    /\ SubSeq(s, i, i + Len(lit) - 1) = lit

\* String.prototype.indexOf(lit, from), 1-based; 0 when there is none
IndexFrom(s, lit, from) ==
    LET hits == {i \in from..(Len(s) - Len(lit) + 1) : StartsAt(s, i, lit)}
    IN  IF hits = {} THEN 0 ELSE Min(hits)

Includes(s, lit) == IndexFrom(s, lit, 1) # 0

\* s.split(sep)[0]
SplitFirst(s, sep) ==
    LET i == IndexFrom(s, sep, 1)
    IN  IF i = 0 THEN s ELSE SubSeq(s, 1, i - 1)

\* s.split(sep)[1], for s that includes sep
SplitSecond(s, sep) ==
    SplitFirst(From(s, IndexFrom(s, sep, 1) + Len(sep)), sep)

\* s.replace(pat, rep) with a string pattern: the first occurrence only
ReplaceFirst(s, pat, rep) ==
    LET i == IndexFrom(s, pat, 1)
    IN  IF i = 0 THEN s
        ELSE SubSeq(s, 1, i - 1) \o rep \o From(s, i + Len(pat))

Whitespace == {" ", "\n", "\r", "\t"}

\* how many leading characters of s lie in set
LeadCount(s, set) ==
    Min({i \in 1..(Len(s) + 1) : i = Len(s) + 1 \/ At(s, i) \notin set}) - 1

\* how many trailing characters of s lie in set
TrailCount(s, set) ==
    Len(s) - Max({i \in 0..Len(s) : i = 0 \/ At(s, i) \notin set})

Trim(s) ==
    IF LeadCount(s, Whitespace) = Len(s) THEN ""
    ELSE SubSeq(s, LeadCount(s, Whitespace) + 1, Len(s) - TrailCount(s, Whitespace))

IsAllWhitespace(s) == LeadCount(s, Whitespace) = Len(s)

----------------------------------------------------------------------------
(* extractYoutubeVideoId                                                   *)

\* the two URL shapes tried in the other order
extractYoutubeVideoIdShortFirst(url) ==
    IF Includes(url, "youtu.be/")
    THEN SplitFirst(SplitSecond(url, "youtu.be/"), "?")
    ELSE IF Includes(url, "watch?v=")
    THEN SplitFirst(SplitSecond(url, "watch?v="), "&")
    ELSE ""

extractYoutubeVideoId(url) ==
    IF Includes(url, "watch?v=")
    THEN SplitFirst(SplitSecond(url, "watch?v="), "&")
    ELSE IF Includes(url, "youtu.be/")
    THEN SplitFirst(SplitSecond(url, "youtu.be/"), "?")
    ELSE ""

----------------------------------------------------------------------------
(* DOM nodes, as the rules read them.  A node is a record: its tag (the    *)
(* lower-case nodeName, "#text" for a text node), the words of its class   *)
(* attribute, its other attributes as <<name, value>> pairs, its text (a   *)
(* text node's data) and its child nodes.                                  *)

Text(d) ==
    [tag |-> "#text", class |-> <<>>, attrs |-> <<>>, data |-> d, childNodes |-> <<>>]

El(tag, class, attrs, kids) ==
    [tag |-> tag, class |-> class, attrs |-> attrs, data |-> "", childNodes |-> kids]

\* what querySelector returns when nothing matches (null)
NoNode == [tag |-> "#none", class |-> <<>>, attrs |-> <<>>, data |-> "", childNodes |-> <<>>]

\* the <x-turndown id="turndown-root"> element turndown wraps its input in
Root(kids) == El("x-turndown", <<>>, <<>>, kids)

IsText(n) == n.tag = "#text"

RECURSIVE JoinWords(_)
JoinWords(ws) ==
    IF ws = <<>> THEN ""
    ELSE IF Len(ws) = 1 THEN ws[1]
    ELSE ws[1] \o " " \o JoinWords(Tail(ws))

\* node.getAttribute('class'); null (here NoAttr) when the attribute is absent
NoAttr == "#null"

ClassAttr(n) == IF n.class = <<>> THEN NoAttr ELSE JoinWords(n.class)

ClassListContains(n, c) == \E i \in 1..Len(n.class) : n.class[i] = c

HasAttr(n, name) == \E i \in 1..Len(n.attrs) : n.attrs[i][1] = name

GetAttribute(n, name) ==
    IF HasAttr(n, name)
    THEN n.attrs[Min({i \in 1..Len(n.attrs) : n.attrs[i][1] = name})][2]
    ELSE NoAttr

RECURSIVE DescSeq(_)
\* the descendants below a child list, in document order
DescSeq(kids) ==
    IF kids = <<>> THEN <<>>
    ELSE <<Head(kids)>> \o DescSeq(Head(kids).childNodes) \o DescSeq(Tail(kids))

\* node.querySelector('<tag>')
QuerySelectorTag(n, tag) ==
    LET d == DescSeq(n.childNodes)
        hits == {i \in 1..Len(d) : d[i].tag = tag}
    IN  IF hits = {} THEN NoNode ELSE d[Min(hits)]

\* node.querySelector('.<class>')
QuerySelectorClass(n, c) ==
    LET d == DescSeq(n.childNodes)
        hits == {i \in 1..Len(d) : ClassListContains(d[i], c)}
    IN  IF hits = {} THEN NoNode ELSE d[Min(hits)]

RECURSIVE TextOfAll(_)
TextOfAll(kids) ==
    IF kids = <<>> THEN ""
    ELSE (IF IsText(Head(kids)) THEN Head(kids).data ELSE TextOfAll(Head(kids).childNodes))
         \o TextOfAll(Tail(kids))

\* node.textContent
TextContent(n) == IF IsText(n) THEN n.data ELSE TextOfAll(n.childNodes)

VoidTags == {"area", "base", "br", "col", "command", "embed", "hr", "img", "input",
             "keygen", "link", "meta", "param", "source", "track", "wbr"}

BlockTags == {"address", "article", "aside", "audio", "blockquote", "body", "canvas",
              "center", "dd", "dir", "div", "dl", "dt", "fieldset", "figcaption",
              "figure", "footer", "form", "frameset", "h1", "h2", "h3", "h4", "h5",
              "h6", "header", "hgroup", "hr", "html", "isindex", "li", "main", "menu",
              "nav", "noframes", "noscript", "ol", "output", "p", "pre", "section",
              "table", "tbody", "td", "tfoot", "th", "thead", "tr", "ul"}

MeaningfulWhenBlankTags == {"a", "table", "thead", "tbody", "tfoot", "th", "td",
                            "iframe", "script", "audio", "video"}

IsBlock(n) == n.tag \in BlockTags

IsVoid(n) == n.tag \in VoidTags

RECURSIVE JoinAttrs(_)
JoinAttrs(as) ==
    IF as = <<>> THEN ""
    ELSE " " \o as[1][1] \o "=\"" \o as[1][2] \o "\"" \o JoinAttrs(Tail(as))

RECURSIVE OuterAll(_)
\* the serialisation of a child list (innerHTML of the parent)
OuterAll(kids) ==
    IF kids = <<>> THEN ""
    ELSE LET n == Head(kids)
             open == "<" \o n.tag
                     \o (IF n.class = <<>> THEN "" ELSE " class=\"" \o JoinWords(n.class) \o "\"")
                     \o JoinAttrs(n.attrs) \o ">"
         IN  (IF IsText(n) THEN n.data
              ELSE IF IsVoid(n) THEN open
              ELSE open \o OuterAll(n.childNodes) \o "</" \o n.tag \o ">")
             \o OuterAll(Tail(kids))

\* node.outerHTML
OuterHTML(n) == OuterAll(<<n>>)

\* turndown's Node.isBlank
IsBlank(n) ==
    LET d == DescSeq(n.childNodes)
    IN  /\ ~IsVoid(n)
        /\ n.tag \notin MeaningfulWhenBlankTags
        /\ IsAllWhitespace(TextContent(n))
        /\ \A i \in 1..Len(d) : ~IsVoid(d[i]) /\ d[i].tag \notin MeaningfulWhenBlankTags

----------------------------------------------------------------------------
(* The rule registry that initTurndownService builds.  addRule puts each   *)
(* new rule in front of the earlier ones, so of the rules whose filter     *)
(* accepts a node the one registered last is used; a blank node never      *)
(* reaches the registry, and a node no registered rule accepts falls to    *)
(* turndown's own rules.                                                    *)

\* the figure rule registered after the two wrapper rules
RegisteredFigureLast ==
    <<"tableCell", "tableRow", "table", "tableSection",
      "tweet", "codepen", "script", "iframe", "figcaption", "pre",
      "wpBlockTable", "wpEmbedYoutube", "figure">>

\* the names of the rules, in the order initTurndownService registers them:
\* the four of turndownPluginGfm.tables, then the nine addRule calls
Registered ==
    <<"tableCell", "tableRow", "table", "tableSection",
      "tweet", "codepen", "script", "iframe", "figure", "figcaption", "pre",
      "wpBlockTable", "wpEmbedYoutube">>

AllCellsAre(tr, tag) == \A i \in 1..Len(tr.childNodes) : tr.childNodes[i].tag = tag

\* isHeadingRow(tr) of the tables plugin, for a row whose parent is the
\* table's only thead or only tbody
IsHeadingRow(tr, parent) ==
    \/ parent.tag = "thead"
    \/ /\ parent.childNodes[1] = tr
       /\ parent.tag \in {"table", "tbody"}
       /\ AllCellsAre(tr, "th")

\* isHeadingRow(table.rows[0]); every table of the model has a row
HasHeadingRow(table) ==
    LET section == table.childNodes[1]
    IN  IsHeadingRow(section.childNodes[1], section)

\* the filter of each registered rule
Filter(rule, n) ==
    CASE rule = "tableCell" -> n.tag \in {"th", "td"}
      [] rule = "tableRow" -> n.tag = "tr"
      [] rule = "table" -> n.tag = "table" /\ HasHeadingRow(n)
      [] rule = "tableSection" -> n.tag \in {"thead", "tbody", "tfoot"}
      [] rule = "tweet" -> n.tag = "blockquote" /\ ClassAttr(n) = "twitter-tweet"
      [] rule = "codepen" ->
            /\ n.tag \in {"p", "div"}
            /\ HasAttr(n, "data-slug-hash")
            /\ ClassAttr(n) = "codepen"
      [] rule = "script" -> n.tag = "script"
      [] rule = "iframe" -> n.tag = "iframe"
      [] rule = "figure" -> n.tag = "figure"
      [] rule = "figcaption" -> n.tag = "figcaption"
      [] rule = "pre" -> n.tag = "pre" /\ QuerySelectorTag(n, "code") = NoNode
      [] rule = "wpBlockTable" -> n.tag = "figure" /\ ClassListContains(n, "wp-block-table")
      [] rule = "wpEmbedYoutube" ->
            n.tag = "figure" /\ ClassListContains(n, "wp-block-embed-youtube")
      [] OTHER -> FALSE

\* the positions in Registered of the rules whose filter accepts n
Matching(n) == {i \in 1..Len(Registered) : Filter(Registered[i], n)}

\* turndown's own conversion of a node no registered rule accepts
BuiltIn(n) ==
    IF n.tag = "p" THEN "paragraph"
    ELSE IF n.tag = "img" THEN "image"
    ELSE IF n.tag = "table" THEN "keep"
    ELSE "default"

\* Rules.forNode
RuleForNode(n) ==
    IF IsBlank(n) THEN "blank"
    ELSE IF Matching(n) # {} THEN Registered[Max(Matching(n))]
    ELSE BuiltIn(n)

----------------------------------------------------------------------------
(* The replacement of each rule                                            *)

\* the tweet padded after the mark-up as well
tweetReplacementPadded(content, node) == "\n\n" \o OuterHTML(node) \o "\n\n"

tweetReplacement(content, node) == "\n\n" \o OuterHTML(node)

codepenReplacement(content, node) == "\n\n" \o OuterHTML(node)

scriptReplacement(content, node, previousSibling) ==
    LET before == IF previousSibling # NoNode /\ ~IsText(previousSibling)
                  THEN "\n" ELSE "\n\n"
        html == ReplaceFirst(OuterHTML(node), "async=\"\"", "async")
    IN  before \o html \o "\n\n"

iframeReplacement(content, node) ==
    LET html == ReplaceFirst(
                    ReplaceFirst(OuterHTML(node), "allowfullscreen=\"\"", "allowfullscreen"),
                    "allowpaymentrequest=\"\"", "allowpaymentrequest")
    IN  "\n\n" \o html \o "\n\n"

figureReplacement(content, node) ==
    IF QuerySelectorTag(node, "figcaption") # NoNode
    THEN ReplaceFirst("\n\n<figure>\n\n" \o content \o "\n\n</figure>\n\n",
                      "\n\n\n\n", "\n\n")
    ELSE content

figcaptionReplacement(content, node) ==
    "\n\n<figcaption>\n\n" \o content \o "\n\n</figcaption>\n\n"

\* the code fence, three grave accents: a TLA+ string cannot hold that
\* character, and the tilde fence stands for it
Fence == "~~~"

preReplacement(content, node) ==
    LET language == IF GetAttribute(node, "data-wetm-language") \in {NoAttr, ""}
                    THEN "" ELSE GetAttribute(node, "data-wetm-language")
    IN  "\n\n" \o Fence \o language \o "\n" \o TextContent(node) \o "\n" \o Fence \o "\n\n"

\* the wrapper's own mark-up converted instead of the table's
wpBlockTableSelf(node) == node

\* the table the wpBlockTable replacement converts: node.querySelector('table')
wpBlockTableTable(node) == QuerySelectorTag(node, "table")

\* node.querySelector('figcaption') in the wpBlockTable replacement
wpBlockTableCaption(node) == QuerySelectorTag(node, "figcaption")

\* nothing emitted when no table was converted
wpBlockTableResultEmptyWithoutTable(tableMarkdown, captionMarkdown, node) ==
    IF tableMarkdown = "" THEN ""
    ELSE IF QuerySelectorTag(node, "figcaption") # NoNode
    THEN tableMarkdown \o "\n\n" \o captionMarkdown
    ELSE tableMarkdown

\* what the wpBlockTable replacement returns, given what its two calls of
\* turndownService.turndown returned (tableMarkdown stays '' without a table)
wpBlockTableResult(tableMarkdown, captionMarkdown, node) ==
    IF wpBlockTableCaption(node) # NoNode
    THEN tableMarkdown \o "\n\n" \o captionMarkdown
    ELSE tableMarkdown

IframeHead ==
    "<iframe width=\"560\" height=\"315\" src=\"https://www.youtube.com/embed/"

IframeTail ==
    "\" title=\"YouTube video player\" frameborder=\"0\" allow=\"accelerometer; autoplay; clipboard-write; encrypted-media; gyroscope; picture-in-picture\" allowfullscreen></iframe>"

wpEmbedYoutubeReplacement(content, node) ==
    LET wrapper == QuerySelectorClass(node, "wp-block-embed__wrapper")
        url == Trim(TextContent(wrapper))
        videoId == extractYoutubeVideoId(url)
    IN  IF wrapper # NoNode /\ videoId # ""
        THEN "\n\n" \o IframeHead \o videoId \o IframeTail \o "\n\n"
        ELSE content

\* cell(content, node) of the tables plugin; index is the cell's place in its row
cell(content, index) == (IF index = 1 THEN "| " ELSE " ") \o content \o " |"

RECURSIVE BorderCells(_, _)
BorderCells(tr, i) ==
    IF i > Len(tr.childNodes) THEN ""
    ELSE LET align == GetAttribute(tr.childNodes[i], "align")
             border == IF align = "left" THEN ":--"
                       ELSE IF align = "right" THEN "--:"
                       ELSE IF align = "center" THEN ":-:"
                       ELSE "---"
         IN  cell(border, i) \o BorderCells(tr, i + 1)

tableRowReplacement(content, node, parent) ==
    LET borderCells == IF IsHeadingRow(node, parent) THEN BorderCells(node, 1) ELSE ""
    IN  "\n" \o content \o (IF borderCells # "" THEN "\n" \o borderCells ELSE "")

tableReplacement(content, node) ==
    "\n\n" \o ReplaceFirst(content, "\n\n", "\n") \o "\n\n"

imageReplacement(content, node) ==
    LET alt == IF HasAttr(node, "alt") THEN GetAttribute(node, "alt") ELSE ""
        src == IF HasAttr(node, "src") THEN GetAttribute(node, "src") ELSE ""
    IN  IF src # "" THEN "![" \o alt \o "](" \o src \o ")" ELSE ""

\* the replacement of every rule but wpBlockTable (whose replacement calls
\* turndown again); index is the node's place among its parent's children
Replacement(rule, content, node, parent, index) ==
    CASE rule = "blank" -> IF IsBlock(node) THEN "\n\n" ELSE ""
      [] rule = "tableCell" -> cell(content, index)
      [] rule = "tableRow" -> tableRowReplacement(content, node, parent)
      [] rule = "table" -> tableReplacement(content, node)
      [] rule = "tableSection" -> content
      [] rule = "tweet" -> tweetReplacement(content, node)
      [] rule = "codepen" -> codepenReplacement(content, node)
      [] rule = "script" ->
            scriptReplacement(content, node,
                IF index > 1 THEN parent.childNodes[index - 1] ELSE NoNode)
      [] rule = "iframe" -> iframeReplacement(content, node)
      [] rule = "figure" -> figureReplacement(content, node)
      [] rule = "figcaption" -> figcaptionReplacement(content, node)
      [] rule = "pre" -> preReplacement(content, node)
      [] rule = "wpEmbedYoutube" -> wpEmbedYoutubeReplacement(content, node)
      [] rule = "paragraph" -> "\n\n" \o content \o "\n\n"
      [] rule = "image" -> imageReplacement(content, node)
      [] rule = "keep" ->
            IF IsBlock(node) THEN "\n\n" \o OuterHTML(node) \o "\n\n" ELSE OuterHTML(node)
      [] OTHER -> IF IsBlock(node) THEN "\n\n" \o content \o "\n\n" ELSE content

----------------------------------------------------------------------------
(* turndown's tree conversion                                              *)

\* join(output, replacement): at most two newlines between two pieces
Join(output, replacement) ==
    LET t == TrailCount(output, {"\n"})
        l == LeadCount(replacement, {"\n"})
        nls == IF t > l THEN t ELSE l
    IN  SubSeq(output, 1, Len(output) - t)
        \o SubSeq("\n\n", 1, IF nls > 2 THEN 2 ELSE nls)
        \o From(replacement, l + 1)

\* postProcess(output): leading tabs and line breaks and trailing white space go
PostProcess(output) ==
    LET l == LeadCount(output, {"\t", "\r", "\n"})
        t == TrailCount(output, Whitespace)
    IN  IF l + t >= Len(output) THEN "" ELSE SubSeq(output, l + 1, Len(output) - t)

MarkdownSpecial == {"\\", "*", "_", "[", "]"}

RECURSIVE Escape(_)
\* TurndownService.escape, for text that starts no Markdown block
Escape(text) ==
    LET special == {i \in 1..Len(text) : At(text, i) \in MarkdownSpecial}
    IN  IF special = {} THEN text
        ELSE SubSeq(text, 1, Min(special) - 1) \o "\\" \o At(text, Min(special))
             \o Escape(From(text, Min(special) + 1))

\* node.flankingWhitespace: none for a block, else the white space at the
\* two ends of the node's text
FlankLeading(n) ==
    IF IsBlock(n) THEN ""
    ELSE SubSeq(TextContent(n), 1, LeadCount(TextContent(n), Whitespace))

FlankTrailing(n) ==
    IF IsBlock(n) \/ IsAllWhitespace(TextContent(n)) THEN ""
    ELSE From(TextContent(n), Len(TextContent(n)) - TrailCount(TextContent(n), Whitespace) + 1)

\* replacementForNode, once the content and the rule's replacement are known
Flanked(n, replacement) == FlankLeading(n) \o replacement \o FlankTrailing(n)

\* the content handed to the rule's replacement
ContentFor(n, processed) ==
    IF FlankLeading(n) # "" \/ FlankTrailing(n) # "" THEN Trim(processed) ELSE processed

RECURSIVE ProcessFrom(_, _, _)
RECURSIVE ReplacementForNode(_, _, _)
RECURSIVE Turndown(_)

\* process(parentNode), from child i on, with the output so far
ProcessFrom(parent, i, output) ==
    IF i > Len(parent.childNodes) THEN output
    ELSE LET n == parent.childNodes[i]
         IN  ProcessFrom(parent, i + 1,
                 Join(output, IF IsText(n) THEN Escape(n.data)
                              ELSE ReplacementForNode(n, parent, i)))

ReplacementForNode(n, parent, i) ==
    LET rule == RuleForNode(n)
        cont == ContentFor(n, ProcessFrom(n, 1, ""))
    IN  Flanked(n,
            IF rule = "wpBlockTable"
            THEN wpBlockTableResult(
                    IF wpBlockTableTable(n) # NoNode
                    THEN Turndown(Root(<<wpBlockTableTable(n)>>)) ELSE "",
                    IF wpBlockTableCaption(n) # NoNode
                    THEN Turndown(Root(<<wpBlockTableCaption(n)>>)) ELSE "",
                    n)
            ELSE Replacement(rule, cont, n, parent, i))

\* turndownService.turndown, from the parsed root on
Turndown(root) == PostProcess(ProcessFrom(root, 1, ""))

----------------------------------------------------------------------------
(* The conversion as the converter runs it: one stack frame per node whose *)
(* children are being converted, and one per call of turndown().  The      *)
(* wpBlockTable replacement calls turndown() again, on the mark-up of the  *)
(* table and of the caption, while the outer conversion waits.             *)

\* the deepest call stack the model follows
MaxStack == 40

Frame(kind, n, parent, index) ==
    [kind |-> kind, node |-> n, parent |-> parent, index |-> index, i |-> 1,
     output |-> "", phase |-> "children", tableMarkdown |-> "", captionMarkdown |-> ""]

NoRule == [rule |-> "none", node |-> NoNode, content |-> "", replacement |-> ""]

Depth == Len(stack)

Top == stack[Depth]

Converting == pc = "converting" /\ Depth >= 1

\* the frame on top has converted all the children of its node
ChildrenDone == Top.phase = "children" /\ Top.i > Len(Top.node.childNodes)

NextChild == Top.node.childNodes[Top.i]

\* the stack once the top frame has returned replacement to the frame below
Returned(replacement) ==
    [k \in 1..(Depth - 1) |->
        IF k = Depth - 1
        THEN [stack[k] EXCEPT !.output = Join(@, Flanked(Top.node, replacement)),
                              !.i = @ + 1]
        ELSE stack[k]]

\* process() meets a text child
CanProcessText ==
    /\ Converting
    /\ Top.phase = "children"
    /\ Top.i =< Len(Top.node.childNodes)
    /\ IsText(NextChild)

\* process(): a text child is escaped and joined to the output
ProcessText ==
    /\ CanProcessText
    /\ stack' = [stack EXCEPT ![Depth].output = Join(@, Escape(NextChild.data)),
                              ![Depth].i = @ + 1]
    /\ taken' = taken + 1
    /\ UNCHANGED <<pc, raw, postContent, previous, config, doc, last, result>>

\* process() meets an element child
CanEnterElement ==
    /\ Converting
    /\ Depth < MaxStack
    /\ Top.phase = "children"
    /\ Top.i =< Len(Top.node.childNodes)
    /\ ~IsText(NextChild)

\* process(): replacementForNode converts the children of an element child first
EnterElement ==
    /\ CanEnterElement
    /\ stack' = Append(stack, Frame("node", NextChild, Top.node, Top.i))
    /\ taken' = taken + 1
    /\ UNCHANGED <<pc, raw, postContent, previous, config, doc, last, result>>

\* the children of the node on top are converted and rule is the rule for it
CanApplyRule(rule) ==
    /\ Converting
    /\ Top.kind = "node"
    /\ ChildrenDone
    /\ RuleForNode(Top.node) = rule

\* replacementForNode: the rule found for the node replaces it
ApplyRule(rule) ==
    /\ CanApplyRule(rule)
    /\ LET cont == ContentFor(Top.node, Top.output)
           replacement == Replacement(rule, cont, Top.node, Top.parent, Top.index)
       IN  /\ stack' = Returned(replacement)
           /\ last' = [rule |-> rule, node |-> Top.node, content |-> cont,
                       replacement |-> replacement]
    /\ taken' = taken + 1
    /\ UNCHANGED <<pc, raw, postContent, previous, config, doc, result>>

tweet == ApplyRule("tweet")

codepen == ApplyRule("codepen")

script == ApplyRule("script")

iframe == ApplyRule("iframe")

figure == ApplyRule("figure")

figcaption == ApplyRule("figcaption")

pre == ApplyRule("pre")

wpEmbedYoutube == ApplyRule("wpEmbedYoutube")

PluginRules == {"tableCell", "tableRow", "table", "tableSection"}

OwnRules == {"paragraph", "image", "keep", "default"}

\* every rule whose replacement is a plain function of content and node
PlainRules ==
    {"tweet", "codepen", "script", "iframe", "figure", "figcaption", "pre",
     "wpEmbedYoutube", "blank"} \cup PluginRules \cup OwnRules

\* the rules of turndownPluginGfm.tables
tables == \E rule \in PluginRules : ApplyRule(rule)

\* turndown's rule for a blank node
blankRule == ApplyRule("blank")

\* turndown's own rules, for a node no registered rule accepts
defaultRule == \E rule \in OwnRules : ApplyRule(rule)

AtWpBlockTable ==
    /\ Converting
    /\ Top.kind = "node"
    /\ RuleForNode(Top.node) = "wpBlockTable"

CanWpBlockTableConvertTable ==
    /\ AtWpBlockTable
    /\ ChildrenDone
    /\ wpBlockTableTable(Top.node) # NoNode
    /\ Depth < MaxStack

\* wpBlockTable: turndownService.turndown(table.outerHTML)
wpBlockTableConvertTable ==
    /\ CanWpBlockTableConvertTable
    /\ stack' = Append([stack EXCEPT ![Depth].phase = "table"],
                       Frame("root", Root(<<wpBlockTableTable(Top.node)>>), NoNode, 0))
    /\ taken' = taken + 1
    /\ UNCHANGED <<pc, raw, postContent, previous, config, doc, last, result>>

CanWpBlockTableNoTable ==
    /\ AtWpBlockTable
    /\ ChildrenDone
    /\ wpBlockTableTable(Top.node) = NoNode

\* wpBlockTable: no table is found and tableMarkdown stays ''
wpBlockTableNoTable ==
    /\ CanWpBlockTableNoTable
    /\ stack' = [stack EXCEPT ![Depth].phase = "afterTable", ![Depth].tableMarkdown = ""]
    /\ taken' = taken + 1
    /\ UNCHANGED <<pc, raw, postContent, previous, config, doc, last, result>>

CanWpBlockTableConvertCaption ==
    /\ AtWpBlockTable
    /\ Top.phase = "afterTable"
    /\ wpBlockTableCaption(Top.node) # NoNode
    /\ Depth < MaxStack

\* wpBlockTable: turndownService.turndown(figcaption.outerHTML)
wpBlockTableConvertCaption ==
    /\ CanWpBlockTableConvertCaption
    /\ stack' = Append([stack EXCEPT ![Depth].phase = "caption"],
                       Frame("root", Root(<<wpBlockTableCaption(Top.node)>>), NoNode, 0))
    /\ taken' = taken + 1
    /\ UNCHANGED <<pc, raw, postContent, previous, config, doc, last, result>>

CanTurndownReturn ==
    /\ Converting
    /\ Depth > 1
    /\ Top.kind = "root"
    /\ ChildrenDone

\* a turndown() call made by a replacement returns to it
TurndownReturn ==
    /\ CanTurndownReturn
    /\ stack' = [k \in 1..(Depth - 1) |->
                    IF k < Depth - 1 THEN stack[k]
                    ELSE IF stack[k].phase = "table"
                    THEN [stack[k] EXCEPT !.phase = "afterTable",
                                          !.tableMarkdown = PostProcess(Top.output)]
                    ELSE [stack[k] EXCEPT !.phase = "afterCaption",
                                          !.captionMarkdown = PostProcess(Top.output)]]
    /\ taken' = taken + 1
    /\ UNCHANGED <<pc, raw, postContent, previous, config, doc, last, result>>

CanWpBlockTableReturn ==
    /\ AtWpBlockTable
    /\ \/ Top.phase = "afterTable" /\ wpBlockTableCaption(Top.node) = NoNode
       \/ Top.phase = "afterCaption"

\* wpBlockTable: the replacement returns
wpBlockTableReturn ==
    /\ CanWpBlockTableReturn
    /\ LET replacement ==
               wpBlockTableResult(Top.tableMarkdown, Top.captionMarkdown, Top.node)
       IN  /\ stack' = Returned(replacement)
           /\ last' = [rule |-> "wpBlockTable", node |-> Top.node,
                       content |-> ContentFor(Top.node, Top.output),
                       replacement |-> replacement]
    /\ taken' = taken + 1
    /\ UNCHANGED <<pc, raw, postContent, previous, config, doc, result>>

CanTurndownDone ==
    /\ Converting
    /\ Depth = 1
    /\ Top.kind = "root"
    /\ ChildrenDone

\* the outermost turndown() call returns the post-processed output
TurndownDone ==
    /\ CanTurndownDone
    /\ result' = PostProcess(Top.output)
    /\ pc' = "done"
    /\ stack' = <<>>
    /\ taken' = taken + 1
    /\ UNCHANGED <<raw, postContent, previous, config, doc, last>>

\* some step of the conversion can be taken: the guards of the actions of Next
CanStep ==
    \/ CanProcessText
    \/ CanEnterElement
    \/ \E rule \in PlainRules : CanApplyRule(rule)
    \/ CanWpBlockTableConvertTable
    \/ CanWpBlockTableNoTable
    \/ CanWpBlockTableConvertCaption
    \/ CanTurndownReturn
    \/ CanWpBlockTableReturn
    \/ CanTurndownDone

Next ==
    \/ ProcessText
    \/ EnterElement
    \/ tweet
    \/ codepen
    \/ script
    \/ iframe
    \/ figure
    \/ figcaption
    \/ pre
    \/ wpEmbedYoutube
    \/ tables
    \/ blankRule
    \/ defaultRule
    \/ wpBlockTableConvertTable
    \/ wpBlockTableNoTable
    \/ wpBlockTableConvertCaption
    \/ TurndownReturn
    \/ wpBlockTableReturn
    \/ TurndownDone

----------------------------------------------------------------------------
(* The documents the conversion is checked on                              *)

\* how many pieces a wrapper's URL is put together from
MaxUrlChunks == 3

\* how deep table wrappers are nested inside table cells
MaxNesting == 2

UrlChunks == {"watch?v=", "youtu.be/", "&", "?", "A", "B"}

RECURSIVE Concats(_, _)
\* the strings put together from at most n of the chunks
Concats(chunks, n) ==
    IF n = 0 THEN {""}
    ELSE LET shorter == Concats(chunks, n - 1)
         IN  shorter \cup {s \o c : s \in shorter, c \in chunks}

Urls == Concats(UrlChunks, MaxUrlChunks)
            \cup {"https://www.youtube.com/watch?v=ABC123&feature=x",
                  "https://youtu.be/XYZ789?t=5",
                  "https://example.com/video"}

Caption == El("figcaption", <<>>, <<>>, <<Text("cap")>>)

Image == El("img", <<>>, << <<"src", "a.png">>, <<"alt", "pic">> >>, <<>>)

Paragraph == El("p", <<>>, <<>>, <<Text("a_b")>>)

HeadedTable(cells) ==
    El("table", <<>>, <<>>, <<El("thead", <<>>, <<>>, <<El("tr", <<>>, <<>>, cells)>>)>>)

\* a table without a heading row
BodyTable ==
    El("table", <<>>, <<>>,
       <<El("tbody", <<>>, <<>>,
            <<El("tr", <<>>, <<>>, <<El("td", <<>>, <<>>, <<Text("c")>>)>>)>>)>>)

Table == HeadedTable(<<El("th", <<>>, <<>>, <<Text("h")>>),
                       El("th", <<>>, << <<"align", "right">> >>, <<Text("k")>>)>>)

Wrapper(url) ==
    El("div", <<"wp-block-embed__wrapper">>, <<>>,
       IF url = "" THEN <<>> ELSE <<Text(url)>>)

FigureClasses ==
    {<<>>, <<"wp-block-image">>, <<"wp-block-table">>, <<"wp-block-embed-youtube">>,
     <<"wp-block-table", "wp-block-embed-youtube">>,
     <<"wp-block-embed-youtube", "wp-block-table">>}

FigureChildren ==
    {<<>>, <<Image>>, <<Caption>>, <<Image, Caption>>, <<Caption, Image>>,
     <<Paragraph, Caption>>, <<El("div", <<>>, <<>>, <<Caption>>)>>,
     <<Table>>, <<Table, Caption>>, <<Caption, Table>>, <<BodyTable>>,
     <<Wrapper("https://youtu.be/XYZ789?t=5")>>,
     <<Wrapper("https://youtu.be/XYZ789?t=5"), Caption>>}

RECURSIVE NestedTable(_)
\* a table wrapper whose table holds, in a cell, a table wrapper, n deep
NestedTable(n) ==
    IF n = 0 THEN Text("x")
    ELSE El("figure", <<"wp-block-table">>, <<>>,
            <<HeadedTable(<<El("th", <<>>, <<>>, <<NestedTable(n - 1)>>)>>), Caption>>)

Tweet(kids) == El("blockquote", <<"twitter-tweet">>, <<>>, kids)

Script == El("script", <<>>, << <<"async", "">>, <<"src", "w.js">> >>, <<>>)

Codepen(tag, class, attrs) == El(tag, class, attrs, <<Text("pen")>>)

OtherDocs ==
    {<<Tweet(<<Paragraph>>), Script>>,
     <<Tweet(<<>>)>>,
     <<Text("t"), Script>>,
     <<Codepen("p", <<"codepen">>, << <<"data-slug-hash", "h">> >>)>>,
     <<Codepen("div", <<"codepen">>, << <<"data-slug-hash", "h">> >>)>>,
     <<Codepen("div", <<"codepen">>, <<>>)>>,
     <<Codepen("p", <<"codepen", "x">>, << <<"data-slug-hash", "h">> >>)>>,
     <<El("iframe", <<>>, << <<"src", "u">>, <<"allowfullscreen", "">> >>, <<>>)>>,
     <<El("iframe", <<>>, << <<"src", "u">> >>, <<Text("t")>>)>>,
     <<El("pre", <<>>, << <<"data-wetm-language", "python">> >>, <<Text("x = 1")>>)>>,
     <<El("pre", <<>>, <<>>, <<Text("x = 1")>>)>>,
     <<Text("a"), El("div", <<>>, <<>>, <<>>), Text("b")>>}

Docs ==
    {Root(<<El("figure", c, <<>>, k)>>) : c \in FigureClasses, k \in FigureChildren}
    \cup {Root(<<El("figure", <<"wp-block-embed-youtube">>, <<>>, <<Wrapper(u)>>)>>) :
              u \in Urls}
    \cup {Root(<<NestedTable(n)>>) : n \in 1..MaxNesting}
    \cup {Root(k) : k \in OtherDocs}

Init ==
    /\ pc = "converting"
    /\ doc \in Docs
    /\ stack = <<Frame("root", doc, NoNode, 0)>>
    /\ last = NoRule
    /\ result = ""
    /\ taken = 0
    /\ raw = ""
    /\ postContent = ""
    /\ previous = ""
    /\ config = FALSE

Spec == Init /\ [][Next]_vars

----------------------------------------------------------------------------
(* The string rewrites of getPostContent.  Each regular expression is      *)
(* followed the way the engine matches it: the leftmost start first, a     *)
(* greedy part as long as it can be, a lazy part as short as it can be.    *)
(* The i flag of the image pattern is left out: the input is lower-case.   *)

\* what . does not match
LineTerminators == {"\n", "\r"}

\* none of the characters of s from i to j lies in set
NoneIn(s, i, j, set) == \A k \in i..j : At(s, k) \notin set

\* the length of what \r?\n matches at i, 0 when it does not match
LineBreakAt(s, i) ==
    IF StartsAt(s, i, "\r\n") THEN 2 ELSE IF StartsAt(s, i, "\n") THEN 1 ELSE 0

\* the length of what (\r?\n){2} matches at i, 0 when it does not match
BlankLineAt(s, i) ==
    LET a == LineBreakAt(s, i)
        b == IF a = 0 THEN 0 ELSE LineBreakAt(s, i + a)
    IN  IF a > 0 /\ b > 0 THEN a + b ELSE 0

\* where the leftmost match of (\r?\n){2} starts, 0 when there is none
FirstBlankLine(s) ==
    LET starts == {i \in 1..Len(s) : BlankLineAt(s, i) > 0}
    IN  IF starts = {} THEN 0 ELSE Min(starts)

RECURSIVE ParagraphGapNoDiv(_)
\* the blank line kept, with no div put into it
ParagraphGapNoDiv(s) ==
    LET i == FirstBlankLine(s)
    IN  IF i = 0 THEN s
        ELSE SubSeq(s, 1, i - 1) \o "\n\n"
             \o ParagraphGapNoDiv(From(s, i + BlankLineAt(s, i)))

RECURSIVE ParagraphGap(_)
\* content.replace(/(\r?\n){2}/g, '\n<div></div>\n')
ParagraphGap(s) ==
    LET i == FirstBlankLine(s)
    IN  IF i = 0 THEN s
        ELSE SubSeq(s, 1, i - 1) \o "\n<div></div>\n"
             \o ParagraphGap(From(s, i + BlankLineAt(s, i)))

ImageExtensions == {"gif", "jpeg", "jpg", "png", "webp"}

\* \.(?:gif|jpe?g|png|webp)" matches at d; the length of the extension, or 0
ExtensionAt(s, d) ==
    LET fits == {e \in ImageExtensions : StartsAt(s, d, "." \o e \o "\"")}
    IN  IF fits = {} THEN 0 ELSE Len(CHOOSE e \in fits : TRUE)

\* the match of the image pattern that starts at i, if there is one:
\*   e  where src=" starts, after <img[^>]* (greedy: the last one that works)
\*   g  where ([^/"]+\.ext) starts, after .*? (lazy: the first one that works)
\*   d  where the dot of the extension is ([^/"]+ greedy: the last one that works)
\*   z  where the > that ends the match is
ImageMatchAt(s, i) ==
    LET dots == {d \in 1..Len(s) : ExtensionAt(s, d) > 0
                      /\ IndexFrom(s, ">", d + ExtensionAt(s, d) + 2) # 0}
        DotsFor(g) == {d \in dots : d > g /\ NoneIn(s, g, d - 1, {"/", "\""})}
        StartsFor(e) == {g \in (e + 5)..Len(s) :
                             NoneIn(s, e + 5, g - 1, LineTerminators) /\ DotsFor(g) # {}}
        es == {e \in (i + 4)..Len(s) :
                   /\ StartsAt(s, e, "src=\"")
                   /\ NoneIn(s, i + 4, e - 1, {">"})
                   /\ StartsFor(e) # {}}
    IN  IF ~StartsAt(s, i, "<img") \/ es = {} THEN [found |-> FALSE]
        ELSE LET e == Max(es)
                 g == Min(StartsFor(e))
                 d == Max(DotsFor(g))
             IN  [found |-> TRUE, e |-> e, g |-> g, d |-> d,
                  z |-> IndexFrom(s, ">", d + ExtensionAt(s, d) + 2)]

RECURSIVE RewriteImagePaths(_)
\* content.replace(/(<img[^>]*src=").*?([^/"]+\.(?:gif|jpe?g|png|webp))("[^>]*>)/gi,
\*                 '$1images/$2$3')
RewriteImagePaths(s) ==
    LET starts == {i \in 1..Len(s) : ImageMatchAt(s, i).found}
    IN  IF starts = {} THEN s
        ELSE LET m == ImageMatchAt(s, Min(starts))
             IN  SubSeq(s, 1, m.e + 4) \o "images/" \o SubSeq(s, m.g, m.z)
                 \o RewriteImagePaths(From(s, m.z + 1))

\* where the match of <(!--more( .*)?--)> that starts at i ends, 0 when there
\* is none: with the label, .* runs to the last --> of the line
MoreMatchEnd(s, i) ==
    LET labelled == {t \in (i + 9)..Len(s) :
                         StartsAt(s, t, "-->") /\ NoneIn(s, i + 9, t - 1, LineTerminators)}
    IN  IF ~StartsAt(s, i, "<!--more") THEN 0
        ELSE IF At(s, i + 8) = " " /\ labelled # {} THEN Max(labelled) + 2
        ELSE IF StartsAt(s, i + 8, "-->") THEN i + 10
        ELSE 0

\* content.replace(/<(!--more( .*)?--)>/, '&lt;$1&gt;')
EscapeMore(s) ==
    LET starts == {i \in 1..Len(s) : MoreMatchEnd(s, i) # 0}
    IN  IF starts = {} THEN s
        ELSE LET i == Min(starts)
                 z == MoreMatchEnd(s, i)
             IN  SubSeq(s, 1, i - 1) \o "&lt;" \o SubSeq(s, i + 1, z - 1) \o "&gt;"
                 \o From(s, z + 1)

LanguageOpen == " {\"language\":\""

LanguageClose == "\"} -->"

\* the match of (<!-- wp:.+? \{"language":"(.+?)"\} -->\r?\n<pre ) that starts
\* at i, if there is one: m where  {"language":" starts, w where "} --> starts
LanguageMatchAt(s, i) ==
    LET EndsFor(m) == {w \in (m + Len(LanguageOpen) + 1)..Len(s) :
                           /\ StartsAt(s, w, LanguageClose)
                           /\ NoneIn(s, m + Len(LanguageOpen), w - 1, LineTerminators)
                           /\ LineBreakAt(s, w + Len(LanguageClose)) > 0
                           /\ StartsAt(s, w + Len(LanguageClose)
                                          + LineBreakAt(s, w + Len(LanguageClose)), "<pre ")}
        ms == {m \in (i + 9)..Len(s) :
                   /\ StartsAt(s, m, LanguageOpen)
                   /\ NoneIn(s, i + 8, m - 1, LineTerminators)
                   /\ EndsFor(m) # {}}
    IN  IF ~StartsAt(s, i, "<!-- wp:") \/ ms = {} THEN [found |-> FALSE]
        ELSE LET m == Min(ms)
                 w == Min(EndsFor(m))
             IN  [found |-> TRUE,
                  language |-> SubSeq(s, m + Len(LanguageOpen), w - 1),
                  z |-> w + Len(LanguageClose) + LineBreakAt(s, w + Len(LanguageClose)) + 4]

RECURSIVE AnnotateLanguage(_)
\* content.replace(/(<!-- wp:.+? \{"language":"(.+?)"\} -->\r?\n<pre )/g,
\*                 '$1data-wetm-language="$2" ')
AnnotateLanguage(s) ==
    LET starts == {i \in 1..Len(s) : LanguageMatchAt(s, i).found}
    IN  IF starts = {} THEN s
        ELSE LET m == LanguageMatchAt(s, Min(starts))
             IN  SubSeq(s, 1, m.z) \o "data-wetm-language=\"" \o m.language \o "\" "
                 \o AnnotateLanguage(From(s, m.z + 1))

Digits == {"0", "1", "2", "3", "4", "5", "6", "7", "8", "9"}

\* the length of what (-|\d+\.) matches at the start of s, 0 when it does not match
MarkerLength(s) ==
    IF StartsAt(s, 1, "-") THEN 1
    ELSE IF LeadCount(s, Digits) > 0 /\ At(s, LeadCount(s, Digits) + 1) = "."
    THEN LeadCount(s, Digits) + 1
    ELSE 0

\* the length of what (-|\d+\.) + matches at the start of s, 0 when it does not match
SpacedMarkerLength(s) ==
    LET m == MarkerLength(s)
        spaces == IF m = 0 THEN 0 ELSE LeadCount(From(s, m + 1), {" "})
    IN  IF spaces > 0 THEN m + spaces ELSE 0

RECURSIVE ListMarkersOnePair(_)
\* a marker's two spaces made one, and no more than that
ListMarkersOnePair(s) ==
    IF s = "" THEN ""
    ELSE IF MarkerLength(s) > 0 /\ StartsAt(s, MarkerLength(s) + 1, "  ")
    THEN SubSeq(s, 1, MarkerLength(s)) \o " "
         \o ListMarkersOnePair(From(s, MarkerLength(s) + 3))
    ELSE Head(s) \o ListMarkersOnePair(Tail(s))

RECURSIVE ListMarkers(_)
\* content.replace(/(-|\d+\.) +/g, '$1 ')
ListMarkers(s) ==
    IF s = "" THEN ""
    ELSE IF SpacedMarkerLength(s) > 0
    THEN SubSeq(s, 1, MarkerLength(s)) \o " "
         \o ListMarkers(From(s, SpacedMarkerLength(s) + 1))
    ELSE Head(s) \o ListMarkers(Tail(s))

----------------------------------------------------------------------------
(* new RootNode(input), for content that is text and empty div elements:   *)
(* the parse, then turndown's collapseWhitespace over the child nodes.     *)

RECURSIVE ParseText(_)
\* the child nodes the HTML parser makes of text with <div></div> in it
ParseText(s) ==
    LET i == IndexFrom(s, "<div></div>", 1)
    IN  IF i = 0 THEN (IF s = "" THEN <<>> ELSE <<Text(s)>>)
        ELSE (IF i = 1 THEN <<>> ELSE <<Text(SubSeq(s, 1, i - 1))>>)
             \o <<El("div", <<>>, <<>>, <<>>)>>
             \o ParseText(From(s, i + Len("<div></div>")))

RECURSIVE CollapseRuns(_)
\* data.replace(/[ \r\n\t]+/g, ' ')
CollapseRuns(s) ==
    IF s = "" THEN ""
    ELSE IF LeadCount(s, Whitespace) > 0
    THEN " " \o CollapseRuns(From(s, LeadCount(s, Whitespace) + 1))
    ELSE Head(s) \o CollapseRuns(Tail(s))

\* data.replace(/ $/, '')
DropLastSpace(s) ==
    IF s # "" /\ At(s, Len(s)) = " " THEN SubSeq(s, 1, Len(s) - 1) ELSE s

\* the nodes with the text node at index i, if there is one, losing its last space
WithoutLastSpace(nodes, i) ==
    IF i = 0 THEN nodes
    ELSE [nodes EXCEPT ![i] = Text(DropLastSpace(nodes[i].data))]

RECURSIVE CollapseFrom(_, _, _)
\* the loop of collapseWhitespace over text nodes and block elements: out is
\* what it has kept, prevText the index in out of the text node it remembers
CollapseFrom(kids, out, prevText) ==
    IF kids = <<>>
    THEN IF prevText # 0 /\ DropLastSpace(out[prevText].data) = ""
         THEN SubSeq(out, 1, prevText - 1) \o SubSeq(out, prevText + 1, Len(out))
         ELSE WithoutLastSpace(out, prevText)
    ELSE IF IsText(Head(kids))
    THEN LET collapsed == CollapseRuns(Head(kids).data)
             text == IF /\ prevText = 0 \/ TrailCount(out[prevText].data, {" "}) > 0
                        /\ StartsAt(collapsed, 1, " ")
                     THEN Tail(collapsed) ELSE collapsed
         IN  IF text = "" THEN CollapseFrom(Tail(kids), out, prevText)
             ELSE CollapseFrom(Tail(kids), Append(out, Text(text)), Len(out) + 1)
    ELSE CollapseFrom(Tail(kids), Append(WithoutLastSpace(out, prevText), Head(kids)), 0)

CollapseWhitespace(kids) == CollapseFrom(kids, <<>>, 0)

RootNode(input) == Root(CollapseWhitespace(ParseText(input)))

----------------------------------------------------------------------------
(* getPostContent, one step per statement                                  *)

\* what getPostContent leaves alone
ConverterIdle == UNCHANGED <<raw, config, stack, last, taken>>

\* line 167: a div into every blank line
InsertParagraphGaps ==
    /\ pc = "gaps"
    /\ pc' = "images"
    /\ previous' = postContent
    /\ postContent' = ParagraphGap(postContent)
    /\ UNCHANGED <<doc, result>>
    /\ ConverterIdle

\* lines 169-173: image sources, when the images were saved
UpdateImagePaths ==
    /\ pc = "images"
    /\ pc' = "more"
    /\ previous' = postContent
    /\ postContent' = IF config THEN RewriteImagePaths(postContent) ELSE postContent
    /\ UNCHANGED <<doc, result>>
    /\ ConverterIdle

\* line 177: the more marker escaped
PreserveMore ==
    /\ pc = "more"
    /\ pc' = "language"
    /\ previous' = postContent
    /\ postContent' = EscapeMore(postContent)
    /\ UNCHANGED <<doc, result>>
    /\ ConverterIdle

\* line 181: the language of a code block put on its pre
PreserveLanguage ==
    /\ pc = "language"
    /\ pc' = "turndown"
    /\ previous' = postContent
    /\ postContent' = AnnotateLanguage(postContent)
    /\ UNCHANGED <<doc, result>>
    /\ ConverterIdle

\* line 184: content = turndownService.turndown(content)
ConvertToMarkdown ==
    /\ pc = "turndown"
    /\ pc' = "listMarkers"
    /\ previous' = postContent
    /\ doc' = RootNode(postContent)
    /\ result' = Turndown(doc')
    /\ postContent' = result'
    /\ ConverterIdle

\* line 187: one space after a list marker, then return content
CleanListMarkers ==
    /\ pc = "listMarkers"
    /\ pc' = "returned"
    /\ previous' = postContent
    /\ postContent' = ListMarkers(postContent)
    /\ UNCHANGED <<doc, result>>
    /\ ConverterIdle

\* nothing of the tree converter is running
NoConversion ==
    /\ doc = Root(<<>>)
    /\ stack = <<>>
    /\ last = NoRule
    /\ result = ""
    /\ taken = 0

\* how many characters a post of plain text has
MaxTextLen == 6

\* posts of plain text: letters and line breaks
Texts == Concats({"a", "\n", "\r"}, MaxTextLen)

InitText ==
    /\ pc = "gaps"
    /\ raw \in Texts
    /\ postContent = raw
    /\ previous = raw
    /\ config \in BOOLEAN
    /\ NoConversion

NextText ==
    \/ InsertParagraphGaps
    \/ UpdateImagePaths
    \/ PreserveMore
    \/ PreserveLanguage
    \/ ConvertToMarkdown
    \/ CleanListMarkers

\* getPostContent on posts of plain text
SpecText == InitText /\ [][NextText]_vars

\* how many pieces a post of mark-up is put together from
MaxPostChunks == 2

PostChunks ==
    {"<img src=\"a.png\">",
     "<img src=\"http://h/d/a.jpg\" alt=\"t\">",
     "<img src=\"a.bmp\">",
     "<img src=\"a.bmp\" alt=\"b.png\">",
     "<img alt=\"b.png\" src=\"d/a.gif\">",
     "<a href=\"c.webp\">c</a>",
     "<!--more-->",
     "<!--more a-->",
     "<!-- c -->",
     "<!-- wp:code {\"language\":\"py\"} -->\n<pre class=\"c\">x</pre>",
     "x",
     "\n"}

Posts == Concats(PostChunks, MaxPostChunks)

InitMarkup ==
    /\ pc = "gaps"
    /\ raw \in Posts
    /\ postContent = raw
    /\ previous = raw
    /\ config \in BOOLEAN
    /\ NoConversion

NextMarkup ==
    \/ InsertParagraphGaps
    \/ UpdateImagePaths
    \/ PreserveMore
    \/ PreserveLanguage

\* the rewrites getPostContent makes before it converts, on posts of mark-up
SpecMarkup == InitMarkup /\ [][NextMarkup]_vars

\* how many pieces the converted Markdown is put together from
MaxMarkdownChunks == 5

\* Markdown put together from markers, spaces and text, and the examples of
\* adjacent and of long markers
Markdowns ==
    Concats({"-", "1", ".", " ", "x"}, MaxMarkdownChunks)
        \cup {"-   -   x", "1.  2.  x", "-   item", "12.   item"}

InitListMarkers ==
    /\ pc = "listMarkers"
    /\ raw = ""
    /\ postContent \in Markdowns
    /\ previous = ""
    /\ config = FALSE
    /\ NoConversion

NextListMarkers == CleanListMarkers

\* the last statement of getPostContent, on what turndown may have returned
SpecListMarkers == InitListMarkers /\ [][NextListMarkers]_vars

----------------------------------------------------------------------------
(* Claims about the rules, checked on every rule application of Spec       *)

EndsWith(s, lit) == Len(lit) =< Len(s) /\ From(s, Len(s) - Len(lit) + 1) = lit

HasClass(n, c) == n.tag = "figure" /\ ClassListContains(n, c)

\* the rule the claim names for a figure that carries one of the two classes
NamedFigureRule(n) ==
    IF HasClass(n, "wp-block-embed-youtube") THEN "wpEmbedYoutube" ELSE "wpBlockTable"

\* the applied rule is the registered rule that accepts the node and was
\* registered last, one of turndown's own only when no registered rule accepts
\* the node, and the figure rule never takes a wrapper figure
MostRecentMatchApplied ==
    /\ IF Matching(last.node) = {}
       THEN last.rule \in OwnRules \cup {"blank"}
       ELSE last.rule = Registered[Max(Matching(last.node))]
    /\ HasClass(last.node, "wp-block-table") \/ HasClass(last.node, "wp-block-embed-youtube")
          => last.rule = NamedFigureRule(last.node)

\* C1 as stated: every node is replaced by the most recently registered rule
\* whose filter accepts it (a built-in one only when none does); a figure
\* with class wp-block-table goes to the table rule, one with class
\* wp-block-embed-youtube, also with both classes, to the video rule, never
\* to the figure rule, with or without a figcaption.
C1_EveryNode == last.rule # "none" => MostRecentMatchApplied

\* C1 amended: the same for every node that is not blank; a blank node (no
\* text but white space, no void or table, link, iframe, script, audio or
\* video element in or below it) gets turndown's blank replacement whatever
\* rule accepts it.
C1_NonBlankNode ==
    last.rule # "none" =>
        IF IsBlank(last.node) THEN last.rule = "blank" ELSE MostRecentMatchApplied

C1_Witness ==
    /\ last.rule = "wpEmbedYoutube"
    /\ HasClass(last.node, "wp-block-table")
    /\ QuerySelectorTag(last.node, "figcaption") # NoNode

\* C3: the figure rule wraps the children of a figure with a figcaption in
\* <figure>...</figure> and its output holds no four newlines in a row; a
\* figure without figcaption gets its converted children back unchanged.
C3_FigureRule ==
    last.rule = "figure" =>
        IF QuerySelectorTag(last.node, "figcaption") # NoNode
        THEN /\ StartsAt(last.replacement, 1, "\n\n<figure>\n\n")
             /\ EndsWith(last.replacement, "\n\n</figure>\n\n")
             /\ ~Includes(last.replacement, "\n\n\n\n")
        ELSE last.replacement = last.content

\* the text after the first open, up to the first close after it
Between(s, open, close) ==
    LET rest == From(s, IndexFrom(s, open, 1) + Len(open))
        j == IndexFrom(rest, close, 1)
    IN  IF j = 0 THEN rest ELSE SubSeq(rest, 1, j - 1)

\* the text after the first open, up to the first close or second open
BetweenOrNext(s, open, close) ==
    LET rest == From(s, IndexFrom(s, open, 1) + Len(open))
        stops == {j \in 1..Len(rest) : StartsAt(rest, j, close) \/ StartsAt(rest, j, open)}
    IN  IF stops = {} THEN rest ELSE SubSeq(rest, 1, Min(stops) - 1)

StatedVideoId(url) ==
    IF Includes(url, "watch?v=") THEN Between(url, "watch?v=", "&")
    ELSE IF Includes(url, "youtu.be/") THEN Between(url, "youtu.be/", "?")
    ELSE ""

AmendedVideoId(url) ==
    IF Includes(url, "watch?v=") THEN BetweenOrNext(url, "watch?v=", "&")
    ELSE IF Includes(url, "youtu.be/") THEN BetweenOrNext(url, "youtu.be/", "?")
    ELSE ""

EmbedWrapper == QuerySelectorClass(last.node, "wp-block-embed__wrapper")

EmbedUrl == Trim(TextContent(EmbedWrapper))

\* what the video rule emits for the identifier id
EmbedOutput(id) ==
    IF EmbedWrapper = NoNode \/ id = "" THEN last.content
    ELSE "\n\n<iframe width=\"560\" height=\"315\" src=\"https://www.youtube.com/embed/"
         \o id \o IframeTail \o "\n\n"

\* C4 as stated: the identifier is the text between the first 'watch?v=' and
\* the next '&' (or the end), else between the first 'youtu.be/' and the next
\* '?' (or the end), else empty; without identifier or wrapper the rule emits
\* the converted children, else the iframe for the identifier, padded with a
\* blank line on both sides.
C4_Identifier ==
    last.rule = "wpEmbedYoutube" => last.replacement = EmbedOutput(StatedVideoId(EmbedUrl))

\* C4 amended: the identifier also ends at a second 'watch?v=' (or, in the
\* other shape, a second 'youtu.be/').
C4_IdentifierToNextMarker ==
    last.rule = "wpEmbedYoutube" => last.replacement = EmbedOutput(AmendedVideoId(EmbedUrl))

C4_Witness ==
    /\ last.rule = "wpEmbedYoutube"
    /\ EmbedWrapper # NoNode
    /\ StatedVideoId(EmbedUrl) # AmendedVideoId(EmbedUrl)
    /\ last.replacement # last.content

\* turndown on the mark-up of n alone
Isolated(n) == Turndown(Root(<<n>>))

FoundTable == QuerySelectorTag(last.node, "table")

FoundCaption == QuerySelectorTag(last.node, "figcaption")

\* C7 as stated: without a table the table rule emits the empty string, with
\* or without a figcaption; with a table it emits the table converted alone,
\* then a blank line and the caption converted alone if there is a figcaption.
C7_NoTableEmpty ==
    last.rule = "wpBlockTable" =>
        last.replacement =
            IF FoundTable = NoNode THEN ""
            ELSE Isolated(FoundTable)
                 \o (IF FoundCaption # NoNode THEN "\n\n" \o Isolated(FoundCaption) ELSE "")

\* C7 amended: without a table the rule emits the empty string only if there
\* is no figcaption either; with a figcaption it emits a blank line and the
\* caption converted alone.
C7_NoTableCaptionKept ==
    last.rule = "wpBlockTable" =>
        last.replacement =
            (IF FoundTable = NoNode THEN "" ELSE Isolated(FoundTable))
            \o (IF FoundCaption # NoNode THEN "\n\n" \o Isolated(FoundCaption) ELSE "")

C7_Witness ==
    /\ last.rule = "wpBlockTable"
    /\ FoundTable = NoNode
    /\ FoundCaption # NoNode
    /\ last.replacement = "\n\n<figcaption>\n\ncap\n\n</figcaption>"

\* the node's mark-up with the iframe rule's two attributes written bare
BareAttributes(html) ==
    ReplaceFirst(ReplaceFirst(html, "allowfullscreen=\"\"", "allowfullscreen"),
                 "allowpaymentrequest=\"\"", "allowpaymentrequest")

\* C8 as stated: the tweet, codepen and iframe rules drop the converted
\* children and emit the node's mark-up with two newlines before and after.
C8_PaddedBothSides ==
    last.rule \in {"tweet", "codepen", "iframe"} =>
        /\ StartsAt(last.replacement, 1, "\n\n")
        /\ EndsWith(last.replacement, "\n\n")
        /\ SubSeq(last.replacement, 3, Len(last.replacement) - 2)
               = IF last.rule = "iframe" THEN BareAttributes(OuterHTML(last.node))
                 ELSE OuterHTML(last.node)

\* C8 amended: the iframe rule pads on both sides; the tweet and the codepen
\* rule emit two newlines and then the mark-up, with nothing after it.
C8_PaddedBefore ==
    last.rule \in {"tweet", "codepen", "iframe"} =>
        /\ StartsAt(last.replacement, 1, "\n\n")
        /\ IF last.rule = "iframe"
           THEN /\ EndsWith(last.replacement, "\n\n")
                /\ SubSeq(last.replacement, 3, Len(last.replacement) - 2)
                       = BareAttributes(OuterHTML(last.node))
           ELSE /\ From(last.replacement, 3) = OuterHTML(last.node)
                /\ ~EndsWith(last.replacement, "\n")

C8_Witness ==
    /\ last.rule = "tweet"
    /\ last.content # ""
    /\ EndsWith(last.replacement, "</blockquote>")

----------------------------------------------------------------------------
(* Termination of the conversion                                           *)

RECURSIVE StepsForChildren(_, _)
RECURSIVE StepsForRule(_)

\* the steps a turndown() call on the mark-up of n takes: the call, the
\* conversion of n, the return
StepsForCall(n) == 2 + StepsForChildren(<<n>>, 1)

\* the steps of the table rule once the table is dealt with
StepsAfterTable(n) ==
    (IF QuerySelectorTag(n, "figcaption") # NoNode
     THEN StepsForCall(QuerySelectorTag(n, "figcaption")) ELSE 0) + 1

\* the steps the conversion of the children of a list takes, from child i on
StepsForChildren(kids, i) ==
    IF i > Len(kids) THEN 0
    ELSE (IF IsText(kids[i]) THEN 1
          ELSE 1 + StepsForChildren(kids[i].childNodes, 1) + StepsForRule(kids[i]))
         + StepsForChildren(kids, i + 1)

\* the steps the replacement of n takes once its children are converted
StepsForRule(n) ==
    IF RuleForNode(n) = "wpBlockTable"
    THEN (IF QuerySelectorTag(n, "table") # NoNode
          THEN StepsForCall(QuerySelectorTag(n, "table")) ELSE 1)
         + StepsAfterTable(n)
    ELSE 1

\* the steps frame k of the stack still has to take
FrameSteps(k) ==
    LET f == stack[k]
    IN  IF f.phase = "children"
        THEN StepsForChildren(f.node.childNodes, IF k = Depth THEN f.i ELSE f.i + 1)
             + (IF f.kind = "root" THEN 1 ELSE StepsForRule(f.node))
        ELSE IF f.phase \in {"table", "afterTable"} THEN StepsAfterTable(f.node)
        ELSE 1

RECURSIVE SumSteps(_)
SumSteps(k) == IF k = 0 THEN 0 ELSE FrameSteps(k) + SumSteps(k - 1)

\* the steps left until the outermost turndown() call returns
StepsLeft == IF pc = "done" THEN 0 ELSE SumSteps(Depth)

\* the turndown() calls made by replacements that have not returned yet
ReentrantCalls == {k \in 2..Depth : stack[k].kind = "root"}

\* each such call converts a node strictly below the node whose replacement made it
CallsOnStrictSubtrees ==
    \A k \in ReentrantCalls :
        LET below == DescSeq(stack[k - 1].node.childNodes)
        IN  \E j \in 1..Len(below) : below[j] = stack[k].node.childNodes[1]

RECURSIVE TreeDepth(_)
TreeDepth(n) ==
    IF n.childNodes = <<>> THEN 1
    ELSE 1 + Max({TreeDepth(n.childNodes[j]) : j \in 1..Len(n.childNodes)})

NestingBounded == Cardinality(ReentrantCalls) =< TreeDepth(doc)

\* the steps the whole conversion of the document takes
TotalSteps == StepsForChildren(doc.childNodes, 1) + 1

\* C10: every turndown() call the table rule makes is on a strict subtree of
\* the node being converted, the calls in progress are never more than the
\* tree is deep, every step taken brings the end one step closer, the
\* conversion is never stuck before its end, and at its end it has returned
\* the result.
C10_Terminates ==
    /\ CallsOnStrictSubtrees
    /\ NestingBounded
    /\ taken + StepsLeft = TotalSteps
    /\ pc = "done" \/ CanStep
    /\ pc = "done" => result = Turndown(doc)

\* two nested turndown() calls are in progress inside the outermost one
C10_Witness ==
    /\ Cardinality(ReentrantCalls) = 2
    /\ doc = Root(<<NestedTable(2)>>)

----------------------------------------------------------------------------
(* Claims about getPostContent's own rewrites                              *)

RECURSIVE BlankLinePairs(_)
\* how many blank-line pairs (two line breaks in a row) s holds, counted
\* from the left, no line break counted twice
BlankLinePairs(s) ==
    LET i == FirstBlankLine(s)
    IN  IF i = 0 THEN 0
        ELSE 1 + BlankLinePairs(From(s, i + BlankLineAt(s, i)))

\* how many paragraph breaks (runs of two newlines) the Markdown holds
ParagraphBreaks(s) ==
    Cardinality({i \in 1..Len(s) : StartsAt(s, i, "\n\n") /\ At(s, i - 1) # "\n"})

\* the gaps between two pieces of text of s that hold a blank-line pair:
\* where each such run of white space starts
BrokenGaps(s) ==
    {i \in 2..Len(s) :
        /\ At(s, i - 1) \notin Whitespace
        /\ At(s, i) \in Whitespace
        /\ LET n == LeadCount(From(s, i), Whitespace)
           IN  i + n =< Len(s) /\ BlankLinePairs(SubSeq(s, i, i + n - 1)) > 0}

\* C2, as the specification states it: for content whose blank lines lie
\* outside every block element, the Markdown getPostContent returns holds as
\* many paragraph breaks as the input holds blank-line pairs, runs of three,
\* four or more line breaks included.
C2_BreakPerPair ==
    pc = "returned" => ParagraphBreaks(postContent) = BlankLinePairs(raw)

\* C2, as the code has it: the Markdown getPostContent returns holds one
\* paragraph break for every gap between two pieces of text that holds at
\* least one blank-line pair, however many line breaks the gap is long;
\* blank lines before the first or after the last text give none.
C2_BreakPerGap ==
    pc = "returned" => ParagraphBreaks(postContent) = Cardinality(BrokenGaps(raw))

\* a run of four line breaks between two letters has been converted
C2_Witness ==
    pc = "returned" /\ raw = "a\n\n\n\na" /\ postContent = "a\n\na"

\* the file name a src value ends in, if its extension is a recognised one
RecognisedFile(value) ==
    LET slashes == {i \in 1..Len(value) : At(value, i) = "/"}
        file == IF slashes = {} THEN value ELSE From(value, Max(slashes) + 1)
        known == \E e \in ImageExtensions :
                     /\ Len(file) > Len(e) + 1
                     /\ StartsAt(file, Len(file) - Len(e), "." \o e)
    IN  IF known THEN file ELSE ""

\* an image tag with only the value of its src attribute rewritten
ImageTagStated(tag) ==
    LET a == IndexFrom(tag, " src=\"", 1)
        q == IF a = 0 THEN 0 ELSE IndexFrom(tag, "\"", a + 6)
        value == SubSeq(tag, a + 6, q - 1)
    IN  IF a = 0 \/ q = 0 \/ RecognisedFile(value) = "" THEN tag
        ELSE SubSeq(tag, 1, a + 5) \o "images/" \o RecognisedFile(value) \o From(tag, q)

RECURSIVE ImagesStated(_)
\* the content with each image tag rewritten so, all else as it was
ImagesStated(s) ==
    LET i == IndexFrom(s, "<img", 1)
        z == IF i = 0 THEN 0 ELSE IndexFrom(s, ">", i)
    IN  IF i = 0 \/ z = 0 THEN s
        ELSE SubSeq(s, 1, i - 1) \o ImageTagStated(SubSeq(s, i, z))
             \o ImagesStated(From(s, z + 1))

\* C5, as the specification states it: with image saving on, the path
\* rewrite changes only the src value of image tags whose src ends in a file
\* name with a recognised extension, to images/<file name>; a tag with
\* another extension, and every character outside a rewritten src value,
\* stays as it was, also when another attribute or a later tag on the line
\* holds a recognised image file name; with image saving off the step
\* changes nothing.
C5_OnlySrcRewritten ==
    pc = "more" => postContent = IF config THEN ImagesStated(previous) ELSE previous

\* where the first more marker of s starts and where its --> starts
FirstMoreMarker(s) ==
    LET Close(i) == IndexFrom(s, "-->", i + 8)
        starts == {i \in 1..Len(s) :
                       /\ StartsAt(s, i, "<!--more")
                       /\ Close(i) # 0
                       /\ \/ Close(i) = i + 8
                          \/ /\ At(s, i + 8) = " "
                             /\ NoneIn(s, i + 9, Close(i) - 1, LineTerminators)}
    IN  IF starts = {} THEN <<0, 0>> ELSE <<Min(starts), Close(Min(starts))>>

\* the content with the angle brackets of its first more marker escaped
MoreStated(s) ==
    LET m == FirstMoreMarker(s)
    IN  IF m[1] = 0 THEN s
        ELSE SubSeq(s, 1, m[1] - 1) \o "&lt;" \o SubSeq(s, m[1] + 1, m[2] + 1)
             \o "&gt;" \o From(s, m[2] + 3)

\* C6, as the specification states it: the angle brackets of exactly the
\* first more marker become &lt; and &gt;, whatever follows the marker on
\* its line (a second marker too), and content without a marker is returned
\* as it was.
C6_FirstMarkerEscaped ==
    pc = "language" => postContent = MoreStated(previous)

\* C9: the list-marker cleanup is idempotent; applied to its own result it
\* changes nothing, and in its result every - or <digits>. that a space
\* follows is followed by exactly one.
C9_Idempotent ==
    pc = "returned" =>
        /\ postContent = ListMarkers(previous)
        /\ ListMarkers(postContent) = postContent
        /\ \A i \in 1..Len(postContent) :
               LET m == MarkerLength(From(postContent, i))
               IN  m > 0 => ~StartsAt(postContent, i + m, "  ")

\* the cleanup has made one space of the three after each of two adjacent markers
C9_Witness ==
    /\ pc = "returned"
    /\ previous = "-   -   x"
    /\ postContent = "- - x"

============================================================================
